---- MODULE Spec2Model ----
(***************************************************************************)
(* A model of the Signer component (src/app/Signer.tsx): the React state   *)
(* of the component, the closures of its last committed render, its event  *)
(* handlers, and the asynchronous steps of handleFileUpload, of the        *)
(* Document renderer's page-count report and of downloadPDF.               *)
(*                                                                         *)
(* Numbers.  JavaScript numbers are modelled as exact rationals            *)
(* [n |-> numerator, d |-> denominator > 0] in lowest terms, so that       *)
(* 120 * 0.9 * 0.9 is 486/5 = 97.2 and 436032/600 is 18168/25 = 726.72.    *)
(* The rounding of IEEE doubles is not modelled.                           *)
(*                                                                         *)
(* Rendering.  A handler reads the state through the closure of the last   *)
(* committed render (the variable view).  React commits the updates of a   *)
(* discrete event (click, change, mouseup) before the next event is        *)
(* dispatched, so those handlers end with the commit; the updates made in  *)
(* the continuation of an await or in a library callback are committed by  *)
(* a later task, the action Render.                                        *)
(***************************************************************************)
EXTENDS Integers, Sequences, FiniteSets, TLC

(***************************** bounds **************************************)
\* the largest reading of the clock (Date.now()), in ticks from 1
MaxClock == 2
\* the number of annotations created in one run
MaxCreates == 2
\* the number of move, edit, resize and remove actions in one run
MaxEdits == 2
\* the number of exports in flight the model follows
MaxInFlight == 2
\* the number of pages of the well-formed document
MaxPages == 2

(************************ program constants ********************************)
VIEWPORT_WIDTH == 600
TEXT_HEIGHT == 14
FONT_SIZE == 14
DEFAULT_SIG_WIDTH == 120
DEFAULT_SIG_HEIGHT == 60

(*************************** rationals *************************************)
Abs(a) == IF a < 0 THEN -a ELSE a

RECURSIVE GCD(_, _)
GCD(a, b) == IF b = 0 THEN a ELSE GCD(b, a % b)

\* the rational p/q (q # 0) in lowest terms with a positive denominator
Rat(p, q) ==
    LET g == GCD(Abs(p), Abs(q))
        s == IF q < 0 THEN -1 ELSE 1
    IN  [n |-> (s * p) \div g, d |-> (s * q) \div g]

Num(i) == [n |-> i, d |-> 1]
RMul(a, b) == Rat(a.n * b.n, a.d * b.d)
RDiv(a, b) == Rat(a.n * b.d, a.d * b.n)
RSub(a, b) == Rat(a.n * b.d - b.n * a.d, a.d * b.d)

(**************************** inputs ***************************************)
NoFile == [kind |-> "null"]
Null == [kind |-> "null"]

\* the size pdf-lib reports for page k of the well-formed document
PageSize(k) ==
    IF k % 2 = 1 THEN [width |-> 612, height |-> 792]
                 ELSE [width |-> 600, height |-> 800]

\* a PDF whose bytes parse, with MaxPages pages
GoodPdf == [kind |-> "file", name |-> "good.pdf", type |-> "application/pdf",
            pages |-> [k \in 1..MaxPages |-> PageSize(k)]]
\* a file declared as PDF whose bytes do not parse
BadPdf == [kind |-> "file", name |-> "bad.pdf", type |-> "application/pdf",
           pages |-> << >>]
\* a file of another declared type
DocxFile == [kind |-> "file", name |-> "a.docx", type |-> "application/msword",
             pages |-> << >>]
Files == {GoodPdf, BadPdf, DocxFile}

\* whether PDFDocument.load and the Document renderer can parse the bytes
Parses(f) == Len(f.pages) >= 1

\* the data URLs the signature pad can hand over: one that embedPng decodes
\* and one that it rejects
SigImages == {"png:ok", "png:bad"}
\* the positions a drag can end at
DragPositions == {[x |-> 0, y |-> 200]}
\* what the user can type into a text or date annotation
TypedValues == {"Jane"}
\* the argument of addDate: "" stands for no custom date
CustomDates == {""}
Today == "11/2/2026"

VARIABLES
    pdfFile,                \* useState<File | null>
    pdfBytes,               \* useState<ArrayBuffer | null>: the file read
    numPages,               \* useState<number>(0)
    currentPage,            \* useState<number>(1)
    elements,               \* useState<FormElement[]>([])
    isExporting,            \* useState(false)
    view,                   \* the state as of the last committed render
    now,                    \* the last reading of Date.now(), 0 before any
    reading,                \* files whose arrayBuffer() is pending
    docLoad,                \* the Document renderer: idle, loading, done
                            \* or failed
    exports,                \* the downloadPDF calls in flight
    issued,                 \* history: the ids given out by the creators
    edits,                  \* history: the number of edit actions so far
    last                    \* history: what the last step did when it was
                            \* a rejection, the reset after a read, the
                            \* end of an export (with the alert() it raised
                            \* and the file it saved) or the render after
                            \* an export that saved a file

\* the asynchronous work in flight, the history variables
async == <<reading, docLoad, exports>>
hist == <<issued, edits>>
state == <<pdfFile, pdfBytes, numPages, currentPage, elements, isExporting>>
vars == <<pdfFile, pdfBytes, numPages, currentPage, elements, isExporting,
          view, now, reading, docLoad, exports, issued, edits, last>>

\* the values a render closes over
Snapshot(f, b, n, c, e, x) ==
    [pdfFile |-> f, pdfBytes |-> b, numPages |-> n, currentPage |-> c,
     elements |-> e, isExporting |-> x]

Init ==
    /\ pdfFile = NoFile
    /\ pdfBytes = Null
    /\ numPages = 0
    /\ currentPage = 1
    /\ elements = << >>
    /\ isExporting = FALSE
    /\ view = Snapshot(NoFile, Null, 0, 1, << >>, FALSE)
    /\ now = 0
    /\ reading = << >>
    /\ docLoad = "idle"
    /\ exports = << >>
    /\ issued = << >>
    /\ edits = 0
    /\ last = [op |-> "other"]

\* the commit that ends a discrete event: the closures see the new state
Commit ==
    view' = Snapshot(pdfFile', pdfBytes', numPages', currentPage', elements',
                     isExporting')

\* history: the render that follows an export that saved a file keeps what
\* the export read and saved, for an export started from this very render
RenderedAfter(prev) ==
    IF prev.op = "exportDone" /\ prev.saved # << >>
    THEN [op |-> "rendered", els |-> prev.of.els, bytes |-> prev.of.bytes,
          saved |-> prev.saved]
    ELSE [op |-> "other"]

\* the render that commits updates made outside a discrete event
Render ==
    /\ view # Snapshot(pdfFile, pdfBytes, numPages, currentPage, elements,
                       isExporting)
    /\ view' = Snapshot(pdfFile, pdfBytes, numPages, currentPage, elements,
                        isExporting)
    /\ last' = RenderedAfter(last)
    /\ UNCHANGED <<state, now, async, hist>>

\* the readings Date.now() can return: the first one is 1, a later one is
\* the last reading or the next
ClockReadings ==
    (IF now = 0 THEN 1 ELSE now)..(IF now < MaxClock THEN now + 1 ELSE now)

(************************* 2. file upload **********************************)
\* the file input is rendered only while no file is selected
FileInputShown == view.pdfFile = NoFile

\* a variant that selects the file before it looks at its type
handleFileUpload_SelectsFirst(file) ==
    /\ FileInputShown
    /\ pdfFile' = file
    /\ \/ /\ file.type # "application/pdf"
          /\ last' = [op |-> "reject", alert |-> "Please convert"]
          /\ UNCHANGED <<pdfBytes, numPages, currentPage, elements,
                         isExporting, now, async, hist>>
       \/ /\ file.type = "application/pdf"
          /\ reading' = Append(reading, file)
          /\ docLoad' = "loading"
          /\ last' = [op |-> "other"]
          /\ UNCHANGED <<pdfBytes, numPages, currentPage, elements,
                         isExporting, now, exports, hist>>
    /\ Commit

\* handleFileUpload up to its await
handleFileUpload(file) ==
    /\ FileInputShown
    /\ \/ /\ file.type # "application/pdf"
          /\ last' = [op |-> "reject", alert |-> "Please convert"]
          /\ UNCHANGED <<state, view, now, async, hist>>
       \/ /\ file.type = "application/pdf"
          /\ pdfFile' = file
          /\ reading' = Append(reading, file)
          /\ docLoad' = "loading"
          /\ last' = [op |-> "other"]
          /\ UNCHANGED <<pdfBytes, numPages, currentPage, elements,
                         isExporting, now, exports, hist>>
          /\ Commit

\* a variant that keeps the annotations whose page is still valid
ResetElements_Revalidate(prev) == SelectSeq(prev, LAMBDA el : el.page >= 1)

\* the store and the page after the bytes have been read
ResetElements(prev) == << >>
ResetPage(prev) == 1

\* handleFileUpload after await file.arrayBuffer()
UploadRead ==
    /\ reading # << >>
    /\ pdfBytes' = Head(reading)
    /\ elements' = ResetElements(elements)
    /\ currentPage' = ResetPage(currentPage)
    /\ reading' = Tail(reading)
    /\ last' = [op |-> "uploadRead", cleared |-> Len(elements)]
    /\ UNCHANGED <<pdfFile, numPages, isExporting, view, now, docLoad,
                   exports, hist>>

\* the Document renderer reports the page count (onLoadSuccess)
onLoadSuccess ==
    /\ docLoad = "loading"
    /\ Parses(pdfFile)
    /\ numPages' = Len(pdfFile.pages)
    /\ docLoad' = "done"
    /\ last' = [op |-> "other"]
    /\ UNCHANGED <<pdfFile, pdfBytes, currentPage, elements, isExporting,
                   view, now, reading, exports, hist>>

\* the Document renderer cannot parse the file: no callback is registered
onLoadError ==
    /\ docLoad = "loading"
    /\ ~Parses(pdfFile)
    /\ docLoad' = "failed"
    /\ last' = [op |-> "other"]
    /\ UNCHANGED <<state, view, now, reading, exports, hist>>

(************************ 2. element creators ******************************)
\* the toolbar, the page navigation and the export button are rendered
\* once a file is selected
ToolbarShown == view.pdfFile # NoFile

\* Date.now().toString()
NewId(clock) == ToString(clock)

\* a variant that puts the new annotation first: [el, ...prev]
AppendElement_Prepend(prev, el) == <<el>> \o prev

\* [...prev, el]
AppendElement(prev, el) == Append(prev, el)

\* the part of a creator common to the three kinds; uid, ns and ng are
\* history fields: the creation number and the shrink and grow activations
\* of the annotation's own resize controls
Create(el, clock) ==
    /\ Len(issued) < MaxCreates
    /\ now' = clock
    /\ elements' = AppendElement(elements,
           el @@ [uid |-> Len(issued) + 1, ns |-> 0, ng |-> 0])
    /\ issued' = Append(issued, el.id)
    /\ last' = [op |-> "other"]
    /\ UNCHANGED <<pdfFile, pdfBytes, numPages, currentPage, isExporting,
                   async, edits>>

addText(clock) ==
    /\ ToolbarShown
    /\ Create([id |-> NewId(clock), type |-> "text", x |-> 50, y |-> 50,
               value |-> "Type here...", page |-> view.currentPage], clock)
    /\ Commit

addDate(customDate, clock) ==
    /\ ToolbarShown
    /\ LET dateStr == IF customDate # "" THEN customDate ELSE Today
       IN  Create([id |-> NewId(clock), type |-> "date", x |-> 50, y |-> 100,
                   value |-> dateStr, page |-> view.currentPage], clock)
    /\ Commit

\* a variant that creates a signature without a size, as a text is created
addSignature_NoSize(dataUrl, clock) ==
    /\ ToolbarShown
    /\ Create([id |-> NewId(clock), type |-> "signature", x |-> 50,
               y |-> 150, value |-> dataUrl,
               page |-> view.currentPage], clock)
    /\ Commit

\* the Save button of the signature modal with a non-empty pad.  The modal
\* is opened from the toolbar and only gates this handler, so its flag
\* (isSignatureModalOpen) is not kept: the handler is enabled once the
\* toolbar has been shown, and the toolbar never goes away
addSignature(dataUrl, clock) ==
    /\ ToolbarShown
    /\ Create([id |-> NewId(clock), type |-> "signature", x |-> 50,
               y |-> 150, value |-> dataUrl,
               width |-> Num(DEFAULT_SIG_WIDTH),
               height |-> Num(DEFAULT_SIG_HEIGHT),
               page |-> view.currentPage], clock)
    /\ Commit

(************************** page navigation ********************************)
Max(a, b) == IF a >= b THEN a ELSE b
Min(a, b) == IF a <= b THEN a ELSE b

PrevTarget(cur) == Max(1, cur - 1)
NextTarget(cur, n) == Min(n, cur + 1)

prevPage ==
    /\ ToolbarShown
    /\ view.currentPage # 1
    /\ currentPage' = PrevTarget(view.currentPage)
    /\ last' = [op |-> "other"]
    /\ UNCHANGED <<pdfFile, pdfBytes, numPages, elements, isExporting, now,
                   async, hist>>
    /\ Commit

nextPage ==
    /\ ToolbarShown
    /\ view.currentPage # view.numPages
    /\ currentPage' = NextTarget(view.currentPage, view.numPages)
    /\ last' = [op |-> "other"]
    /\ UNCHANGED <<pdfFile, pdfBytes, numPages, elements, isExporting, now,
                   async, hist>>
    /\ Commit

(************************** 4. store helpers *******************************)
\* { ...el, ...upd }
Spread(el, upd) ==
    [f \in DOMAIN el \cup DOMAIN upd |->
        IF f \in DOMAIN upd THEN upd[f] ELSE el[f]]

removeElement(prev, id) == SelectSeq(prev, LAMBDA el : el.id # id)

\* a variant that also puts the moved annotation on the first page
updateElementPosition_Repage(prev, id, x, y) ==
    [i \in DOMAIN prev |->
        IF prev[i].id = id
        THEN Spread(prev[i], [x |-> x, y |-> y, page |-> 1])
        ELSE prev[i]]

\* prev.map((el) => (el.id === id ? { ...el, x, y } : el))
updateElementPosition(prev, id, x, y) ==
    [i \in DOMAIN prev |->
        IF prev[i].id = id THEN Spread(prev[i], [x |-> x, y |-> y])
                           ELSE prev[i]]

updateElementValue(prev, id, value) ==
    [i \in DOMAIN prev |->
        IF prev[i].id = id THEN Spread(prev[i], [value |-> value])
                           ELSE prev[i]]

updateElementSize(prev, id, width, height) ==
    [i \in DOMAIN prev |->
        IF prev[i].id = id
        THEN Spread(prev[i], [width |-> width, height |-> height])
        ELSE prev[i]]

\* el.width || dflt and el.height || dflt: undefined and 0 are falsy
WidthOr(el, dflt) ==
    IF "width" \in DOMAIN el /\ el.width.n # 0 THEN el.width ELSE Num(dflt)
HeightOr(el, dflt) ==
    IF "height" \in DOMAIN el /\ el.height.n # 0 THEN el.height ELSE Num(dflt)

\* a variant that shrinks by a fixed step of half the default size
SmallerSize_FixedStep(el) ==
    [width |-> RSub(WidthOr(el, DEFAULT_SIG_WIDTH),
                    Rat(DEFAULT_SIG_WIDTH, 2)),
     height |-> RSub(HeightOr(el, DEFAULT_SIG_HEIGHT),
                     Rat(DEFAULT_SIG_HEIGHT, 2))]

\* the sizes the two resize controls ask for
SmallerSize(el) ==
    [width |-> RMul(WidthOr(el, DEFAULT_SIG_WIDTH), Rat(9, 10)),
     height |-> RMul(HeightOr(el, DEFAULT_SIG_HEIGHT), Rat(9, 10))]
LargerSize(el) ==
    [width |-> RMul(WidthOr(el, DEFAULT_SIG_WIDTH), Rat(11, 10)),
     height |-> RMul(HeightOr(el, DEFAULT_SIG_HEIGHT), Rat(11, 10))]

(*********************** DraggableElement handlers *************************)
\* elements.filter(el => el.page === currentPage), as rendered: the
\* indices of the annotations that have a DraggableElement
Overlay == {k \in DOMAIN view.elements :
                view.elements[k].page = view.currentPage}

\* history: count an activation of a resize control of annotation uid
Activated(els, uid, field) ==
    [i \in DOMAIN els |->
        IF els[i].uid = uid
        THEN [els[i] EXCEPT ![field] = @ + 1]
        ELSE els[i]]

\* what an edit of the store leaves alone; edits counts the edit
ElementFrame ==
    /\ edits < MaxEdits
    /\ edits' = edits + 1
    /\ UNCHANGED <<pdfFile, pdfBytes, numPages, currentPage, isExporting, now,
                   async, issued>>

\* Draggable onStop
dragStop(k, pos) ==
    /\ ToolbarShown
    /\ k \in Overlay
    /\ LET el == view.elements[k]
       IN  /\ <<el.x, el.y>> # <<pos.x, pos.y>>
           /\ elements' = updateElementPosition(elements, el.id, pos.x, pos.y)
           /\ last' = [op |-> "other"]
    /\ ElementFrame
    /\ Commit

\* the delete button
clickRemove(k) ==
    /\ ToolbarShown
    /\ k \in Overlay
    /\ LET el == view.elements[k]
       IN  /\ elements' = removeElement(elements, el.id)
           /\ last' = [op |-> "other"]
    /\ ElementFrame
    /\ Commit

\* the input of a text or date annotation
changeValue(k, value) ==
    /\ ToolbarShown
    /\ k \in Overlay
    /\ LET el == view.elements[k]
       IN  /\ el.type \in {"text", "date"}
           /\ el.value # value
           /\ elements' = updateElementValue(elements, el.id, value)
           /\ last' = [op |-> "other"]
    /\ ElementFrame
    /\ Commit

\* the Smaller control of a signature annotation
clickSmaller(k) ==
    /\ ToolbarShown
    /\ k \in Overlay
    /\ LET el == view.elements[k]
           sz == SmallerSize(el)
       IN  /\ el.type = "signature"
           /\ elements' = Activated(
                  updateElementSize(elements, el.id, sz.width, sz.height),
                  el.uid, "ns")
           /\ last' = [op |-> "other"]
    /\ ElementFrame
    /\ Commit

\* the Larger control of a signature annotation
clickLarger(k) ==
    /\ ToolbarShown
    /\ k \in Overlay
    /\ LET el == view.elements[k]
           sz == LargerSize(el)
       IN  /\ el.type = "signature"
           /\ elements' = Activated(
                  updateElementSize(elements, el.id, sz.width, sz.height),
                  el.uid, "ng")
           /\ last' = [op |-> "other"]
    /\ ElementFrame
    /\ Commit

(***************************** 3. export ***********************************)
\* a variant whose button is not disabled while isExporting
ExportButtonEnabled_NoGuard == view.pdfFile # NoFile

\* the export button is rendered once a file is selected and is disabled
\* while isExporting
ExportButtonEnabled == view.pdfFile # NoFile /\ ~view.isExporting

\* a variant whose upper bound is off by one
InBounds_OffByOne(el, pages) ==
    LET pageIndex == el.page - 1
    IN  ~(pageIndex < 0 \/ pageIndex >= Len(pages) - 1)

\* not (pageIndex < 0 || pageIndex >= pages.length)
InBounds(el, pages) ==
    LET pageIndex == el.page - 1
    IN  ~(pageIndex < 0 \/ pageIndex >= Len(pages))

ScaleFactor(page) == RDiv(Num(page.width), Num(VIEWPORT_WIDTH))

PdfX(el, page) == RMul(Num(el.x), ScaleFactor(page))

ElementHeight(el) ==
    IF el.type = "signature" THEN HeightOr(el, 0) ELSE Num(TEXT_HEIGHT)

\* a variant that flips the axis without the annotation's height
PdfY_NoHeight(el, page) ==
    RSub(Num(page.height), RMul(Num(el.y), ScaleFactor(page)))

PdfY(el, page) ==
    RSub(RSub(Num(page.height), RMul(Num(el.y), ScaleFactor(page))),
         RMul(ElementHeight(el), ScaleFactor(page)))

\* a variant that draws a text at the editor's font size on every page
DrawText_Unscaled(el, page, src) ==
    [kind |-> "text", page |-> el.page, content |-> el.value,
     x |-> PdfX(el, page), y |-> PdfY(el, page),
     size |-> Num(FONT_SIZE), src |-> src]

\* a variant that draws a text with the content and the position that the
\* store has for it when the draw happens
DrawText_Live(el, page, src) ==
    LET cur == IF src \in DOMAIN elements THEN elements[src] ELSE el
    IN  [kind |-> "text", page |-> cur.page, content |-> cur.value,
         x |-> PdfX(cur, page), y |-> PdfY(cur, page),
         size |-> RMul(Num(FONT_SIZE), ScaleFactor(page)), src |-> src]

\* page.drawText(el.value, {x, y, size, font, color}); src is a history
\* field: the index of the annotation in the exported list
DrawText(el, page, src) ==
    [kind |-> "text", page |-> el.page, content |-> el.value,
     x |-> PdfX(el, page), y |-> PdfY(el, page),
     size |-> RMul(Num(FONT_SIZE), ScaleFactor(page)), src |-> src]

\* page.drawImage(pngImage, {x, y, width, height})
DrawImage(el, page, src) ==
    [kind |-> "image", page |-> el.page, content |-> el.value,
     x |-> PdfX(el, page), y |-> PdfY(el, page),
     width |-> RMul(WidthOr(el, DEFAULT_SIG_WIDTH), ScaleFactor(page)),
     height |-> RMul(HeightOr(el, DEFAULT_SIG_HEIGHT), ScaleFactor(page)),
     src |-> src]

\* whether pdfDoc.embedPng decodes the data URL
Decodes(dataUrl) == dataUrl = "png:ok"

\* the loop "for (const el of elements)" from index i to its next await:
\* the embedPng of an in-bounds signature, or pdfDoc.save() after the loop
RECURSIVE RunLoop(_, _, _, _)
RunLoop(els, pages, i, drawn) ==
    IF i > Len(els) THEN [pc |-> "save", i |-> i, drawn |-> drawn]
    ELSE IF ~InBounds(els[i], pages) THEN RunLoop(els, pages, i + 1, drawn)
    ELSE IF els[i].type \in {"text", "date"}
         THEN RunLoop(els, pages, i + 1,
                      Append(drawn, DrawText(els[i], pages[els[i].page], i)))
    ELSE IF els[i].type = "signature"
         THEN [pc |-> "embed", i |-> i, drawn |-> drawn]
    ELSE RunLoop(els, pages, i + 1, drawn)

RemoveAt(seq, k) == SubSeq(seq, 1, k - 1) \o SubSeq(seq, k + 1, Len(seq))

\* a variant without the finally block
ExportingAfter_NoFinally(prev) == prev

\* the status after the finally block
ExportingAfter(prev) == FALSE

\* what an export that threw hands to alert() and to saveAs: drawn is
\* what was composited before the throw
AlertsOnFailure(drawn) == <<"Failed to export PDF">>
\* a variant that saves what was composited before the throw
SavedOnFailure_Partial(drawn) == <<drawn>>
SavedOnFailure(drawn) == << >>

\* history: the store, the file and the bytes before the last step of an
\* export
Before == [elements |-> elements, pdfFile |-> pdfFile, pdfBytes |-> pdfBytes]

\* a variant whose catch block also empties the store
ExportFails_ResetsStore(k) ==
    /\ isExporting' = ExportingAfter(isExporting)
    /\ elements' = << >>
    /\ exports' = RemoveAt(exports, k)
    /\ last' = [op |-> "exportDone", of |-> exports[k], before |-> Before,
                alerts |-> AlertsOnFailure(exports[k].drawn),
                saved |-> SavedOnFailure(exports[k].drawn)]
    /\ UNCHANGED <<pdfFile, pdfBytes, numPages, currentPage, view, now,
                   reading, docLoad, hist>>

\* a variant without catch and finally: the throw leaves the function
\* with the status as it was, and the export is never cleared
ExportFails_Uncaught(k) ==
    /\ exports' = [exports EXCEPT ![k] = Spread(@, [pc |-> "thrown"])]
    /\ last' = [op |-> "other"]
    /\ UNCHANGED <<state, view, now, reading, docLoad, hist>>

\* catch and finally: one alert, the status reset, no file
ExportFails(k) ==
    /\ isExporting' = ExportingAfter(isExporting)
    /\ exports' = RemoveAt(exports, k)
    /\ last' = [op |-> "exportDone", of |-> exports[k], before |-> Before,
                alerts |-> AlertsOnFailure(exports[k].drawn),
                saved |-> SavedOnFailure(exports[k].drawn)]
    /\ UNCHANGED <<pdfFile, pdfBytes, numPages, currentPage, elements, view,
                   now, reading, docLoad, hist>>

\* an await resumes with the export at its next await
ExportContinues(k, next) ==
    /\ exports' = [exports EXCEPT ![k] = Spread(@, next)]
    /\ last' = [op |-> "other"]
    /\ UNCHANGED <<state, view, now, reading, docLoad, hist>>

\* history: the export that saved a file just before the render a new
\* export is started from, when it read the store and the bytes that the
\* new export reads
PreviousExport ==
    IF /\ last.op = "rendered"
       /\ last.els = view.elements
       /\ last.bytes = view.pdfBytes
    THEN last
    ELSE [op |-> "other"]

\* downloadPDF up to its first await; prev is a history field
downloadPDF ==
    /\ ExportButtonEnabled
    /\ \/ /\ view.pdfBytes = Null
          /\ last' = [op |-> "other"]
          /\ UNCHANGED <<state, view, now, async, hist>>
       \/ /\ view.pdfBytes # Null
          /\ Len(exports) < MaxInFlight
          /\ isExporting' = TRUE
          /\ exports' = Append(exports,
                 [pc |-> "load", bytes |-> view.pdfBytes,
                  els |-> view.elements, i |-> 1, drawn |-> << >>,
                  prev |-> PreviousExport])
          /\ last' = [op |-> "other"]
          /\ UNCHANGED <<pdfFile, pdfBytes, numPages, currentPage, elements,
                         now, reading, docLoad, hist>>
          /\ Commit

\* a variant that keeps the document of the export before, with what that
\* export drew on it
LoadedDocument_Cached(e) ==
    IF e.prev.op = "rendered" /\ e.prev.saved # << >>
    THEN e.prev.saved[1]
    ELSE << >>

\* what is drawn on the document PDFDocument.load returns: each export
\* parses the bytes anew
LoadedDocument(e) == << >>

\* await PDFDocument.load(pdfBytes)
exportLoad(k) ==
    /\ k \in DOMAIN exports
    /\ exports[k].pc = "load"
    /\ IF Parses(exports[k].bytes)
       THEN ExportContinues(k, [pc |-> "font"])
       ELSE ExportFails(k)

\* await pdfDoc.embedFont(...), then the loop to its next await
exportFont(k) ==
    /\ k \in DOMAIN exports
    /\ exports[k].pc = "font"
    /\ \/ ExportContinues(k, RunLoop(exports[k].els, exports[k].bytes.pages,
                                     1, LoadedDocument(exports[k])))
       \/ ExportFails(k)

\* await pdfDoc.embedPng(el.value), drawImage, then the loop goes on
exportEmbed(k) ==
    /\ k \in DOMAIN exports
    /\ exports[k].pc = "embed"
    /\ LET e == exports[k]
           el == e.els[e.i]
       IN  IF Decodes(el.value)
           THEN ExportContinues(k,
                    RunLoop(e.els, e.bytes.pages, e.i + 1,
                            Append(e.drawn,
                                   DrawImage(el, e.bytes.pages[el.page], e.i))))
           ELSE ExportFails(k)

\* await pdfDoc.save(), saveAs, finally
exportSave(k) ==
    /\ k \in DOMAIN exports
    /\ exports[k].pc = "save"
    /\ \/ /\ isExporting' = ExportingAfter(isExporting)
          /\ exports' = RemoveAt(exports, k)
          /\ last' = [op |-> "exportDone", of |-> exports[k],
                      before |-> Before, alerts |-> << >>,
                      saved |-> <<exports[k].drawn>>]
          /\ UNCHANGED <<pdfFile, pdfBytes, numPages, currentPage, elements,
                         view, now, reading, docLoad, hist>>
       \/ ExportFails(k)

(*************************** specification *********************************)
Next ==
    \/ Render
    \/ \E file \in Files : handleFileUpload(file)
    \/ UploadRead
    \/ onLoadSuccess
    \/ onLoadError
    \/ \E clock \in ClockReadings : addText(clock)
    \/ \E customDate \in CustomDates, clock \in ClockReadings :
           addDate(customDate, clock)
    \/ \E dataUrl \in SigImages, clock \in ClockReadings :
           addSignature(dataUrl, clock)
    \/ prevPage
    \/ nextPage
    \/ \E k \in DOMAIN view.elements, pos \in DragPositions : dragStop(k, pos)
    \/ \E k \in DOMAIN view.elements : clickRemove(k)
    \/ \E k \in DOMAIN view.elements, value \in TypedValues :
           changeValue(k, value)
    \/ \E k \in DOMAIN view.elements : clickSmaller(k)
    \/ \E k \in DOMAIN view.elements : clickLarger(k)
    \/ downloadPDF
    \/ \E k \in DOMAIN exports : exportLoad(k)
    \/ \E k \in DOMAIN exports : exportFont(k)
    \/ \E k \in DOMAIN exports : exportEmbed(k)
    \/ \E k \in DOMAIN exports : exportSave(k)

Spec == Init /\ [][Next]_vars

\* the resumption of an await of an export in flight
ExportStep ==
    \E k \in DOMAIN exports :
        exportLoad(k) \/ exportFont(k) \/ exportEmbed(k) \/ exportSave(k)

\* one handler of DraggableElement, on a store that was not edited before
EditStep ==
    /\ edits = 0
    /\ \/ \E k \in DOMAIN view.elements, pos \in DragPositions :
              dragStop(k, pos)
       \/ \E k \in DOMAIN view.elements : clickRemove(k)
       \/ \E k \in DOMAIN view.elements, value \in TypedValues :
              changeValue(k, value)
       \/ \E k \in DOMAIN view.elements : clickSmaller(k)
       \/ \E k \in DOMAIN view.elements : clickLarger(k)

\* the steps of Next, with at most one step of a handler of
\* DraggableElement (they write the store only)
LiveNext ==
    \/ Render
    \/ \E file \in Files : handleFileUpload(file)
    \/ UploadRead
    \/ onLoadSuccess
    \/ onLoadError
    \/ \E clock \in ClockReadings : addText(clock)
    \/ \E customDate \in CustomDates, clock \in ClockReadings :
           addDate(customDate, clock)
    \/ \E dataUrl \in SigImages, clock \in ClockReadings :
           addSignature(dataUrl, clock)
    \/ prevPage
    \/ nextPage
    \/ EditStep
    \/ downloadPDF
    \/ ExportStep

\* an export in flight waits at the await named pc
AtPc(pc) == \E k \in DOMAIN exports : exports[k].pc = pc

\* the promises that downloadPDF awaits (PDFDocument.load, embedFont,
\* embedPng, save) settle, and the event loop then resumes the function:
\* weak fairness of each resumption. For embedFont and embedPng it is
\* written out, WF_vars(A) being []<>~ENABLED <<A>>_vars \/ []<><<A>>_vars
\* and the resumption being enabled exactly when an export waits there.
LiveSpec ==
    /\ Init
    /\ [][LiveNext]_vars
    /\ WF_vars(\E k \in DOMAIN exports : exportLoad(k))
    /\ WF_vars(\E k \in DOMAIN exports : exportSave(k))
    /\ \/ []<>(~AtPc("font"))
       \/ []<><<\E k \in DOMAIN exports : exportFont(k)>>_vars
    /\ \/ []<>(~AtPc("embed"))
       \/ []<><<\E k \in DOMAIN exports : exportEmbed(k)>>_vars

(***************************************************************************)
(*                               claims                                    *)
(***************************************************************************)
RECURSIVE Pow(_, _)
Pow(b, e) == IF e = 0 THEN 1 ELSE b * Pow(b, e - 1)

\* the exports whose compositing can be observed: those in flight and the
\* one that has just ended
Observed ==
    {exports[k] : k \in DOMAIN exports}
        \cup (IF last.op = "exportDone" THEN {last.of} ELSE {})

\* the page count of the document an export works on
PageCount(e) == Len(e.bytes.pages)

\* the indices of an export's annotations whose page is within [1, pageCount]
InRange(e) == {j \in DOMAIN e.els :
                  1 <= e.els[j].page /\ e.els[j].page <= PageCount(e)}

\* the indices of the annotations an export has composited
Composited(e) == {e.drawn[n].src : n \in DOMAIN e.drawn}

\* the last step ended an export by a throw, or by a saved file
ExportFailed == last.op = "exportDone" /\ last.of.pc # "save"
ExportSaved == last.op = "exportDone" /\ last.saved # << >>

\* C1: no two annotations of the store have the same id, and no id handed
\* out by a creator equals an id handed out by an earlier create
C1_IdsUnique ==
    /\ \A i, j \in DOMAIN elements :
           i # j => elements[i].id # elements[j].id
    /\ \A i, j \in DOMAIN issued : i # j => issued[i] # issued[j]

\* C2: at most one export is in flight
C2_OneExportInFlight == Len(exports) <= 1

\* an export is past its first awaits and the rendered button is disabled
C2_Witness ==
    /\ Len(exports) = 1
    /\ exports[1].pc \in {"embed", "save"}
    /\ view.pdfFile # NoFile
    /\ ~ExportButtonEnabled

\* C3: every draw of an export is at pdfX = x * pageWidth / 600 and
\* pdfY = pageHeight - y * pageWidth / 600 - h * pageWidth / 600, h being 14
\* for text and date and the annotation's height for a signature; a text
\* annotation at (50, 50) on a 612 by 792 page is drawn at (51, 726.72)
C3_DrawPosition ==
    \A e \in Observed : \A n \in DOMAIN e.drawn :
        LET d == e.drawn[n]
            el == e.els[d.src]
            pg == e.bytes.pages[el.page]
            h == IF el.type = "signature" THEN el.height ELSE Num(14)
        IN  /\ d.x.n * 600 = d.x.d * (el.x * pg.width)
            /\ d.y.n * (600 * h.d)
                   = d.y.d * (pg.height * 600 * h.d - el.y * pg.width * h.d
                              - h.n * pg.width)
            /\ (el.type = "text" /\ el.x = 50 /\ el.y = 50
                    /\ pg.width = 612 /\ pg.height = 792)
                   => d.x = Num(51) /\ d.y = [n |-> 18168, d |-> 25]

\* an export has drawn a text annotation at (50, 50) of a 612 by 792 page
\* and a signature
C3_Witness ==
    \E e \in Observed : \E n, m \in DOMAIN e.drawn :
        /\ e.els[e.drawn[n].src].type = "text"
        /\ e.els[e.drawn[n].src].x = 50
        /\ e.els[e.drawn[n].src].y = 50
        /\ e.bytes.pages[e.els[e.drawn[n].src].page].width = 612
        /\ e.drawn[n].y = [n |-> 18168, d |-> 25]
        /\ e.drawn[m].kind = "image"

\* C4: an export skips the annotations whose page is outside [1, pageCount]
\* and composites every other one: at each await of the loop the composited
\* annotations are those in range before the loop's position, a throw is
\* never at an annotation out of range, and a saved file holds them all
C4_OutOfRangeSkipped ==
    \A e \in Observed :
        /\ e.pc \in {"embed", "save"} =>
               Composited(e) = {j \in InRange(e) : j < e.i}
        /\ e.pc = "embed" => e.i \in InRange(e)
        /\ e.pc = "save" => Composited(e) = InRange(e)

\* an export has saved a file for a store with one annotation out of range,
\* which it skipped, and one in range, which it drew
C4_Witness ==
    /\ ExportSaved
    /\ \E j \in DOMAIN last.of.els : last.of.els[j].page < 1
    /\ Len(last.saved[1]) >= 1
    /\ Len(last.saved[1]) < Len(last.of.els)

\* C5: an export ends with one file and no alert, or with one alert and no
\* file; a file is saved only after the loop is over, with every annotation
\* in range composited; a failure of load, embedFont or embedPng saves none
C5_AllOrNothing ==
    last.op = "exportDone" =>
        /\ Len(last.saved) + Len(last.alerts) = 1
        /\ last.saved # << >> =>
               /\ last.of.pc = "save"
               /\ last.saved[1] = last.of.drawn
               /\ Composited(last.of) = InRange(last.of)
        /\ last.of.pc \in {"load", "font", "embed"} =>
               last.saved = << >> /\ Len(last.alerts) = 1

\* an export has thrown at a signature image after it had drawn an annotation
C5_Witness ==
    /\ ExportFailed
    /\ last.of.pc = "embed"
    /\ Len(last.of.drawn) >= 1
    /\ last.saved = << >>
    /\ Len(last.alerts) = 1

C7_ExportWritesOnlyStatus ==
    [][exports' # exports =>
           UNCHANGED <<pdfFile, pdfBytes, numPages, currentPage,
                       elements>>]_vars

\* an export of a store that holds an annotation has ended by a throw at a
\* signature image, and the store still holds what the export read
C7_Witness ==
    /\ last.op = "exportDone"
    /\ last.of.pc = "embed"
    /\ elements # << >>
    /\ elements = last.of.els

\* C8: when handleFileUpload resumes after the read, the store is empty and
\* the current page is 1
C8_LoadClearsStore ==
    last.op = "uploadRead" => elements = << >> /\ currentPage = 1

\* the read has ended while the store held an annotation of a page that the
\* document has
C8_Witness ==
    /\ last.op = "uploadRead"
    /\ last.cleared >= 1
    /\ Parses(pdfFile)
    /\ elements = << >>

\* C9: once a well-formed document is loaded, every annotation of the store
\* has a page within [1, pageCount]
C9_PageInRange ==
    (pdfBytes # Null /\ Parses(pdfBytes)) =>
        \A i \in DOMAIN elements :
            1 <= elements[i].page /\ elements[i].page <= Len(pdfBytes.pages)

\* C10: a signature annotation whose resize controls were activated ns times
\* to shrink and ng times to grow has width 120 * 0.9^ns * 1.1^ng and height
\* 60 * 0.9^ns * 1.1^ng
C10_ResizeCompounds ==
    \A i \in DOMAIN elements :
        LET el == elements[i]
        IN  el.type = "signature" =>
                /\ el.width.n * Pow(10, el.ns + el.ng)
                       = el.width.d * 120 * Pow(9, el.ns) * Pow(11, el.ng)
                /\ el.height.n * Pow(10, el.ns + el.ng)
                       = el.height.d * 60 * Pow(9, el.ns) * Pow(11, el.ng)

\* C11: the width and the height of every signature annotation of the store
\* are strictly positive
C11_SizePositive ==
    \A i \in DOMAIN elements :
        elements[i].type = "signature" =>
            /\ elements[i].width.n > 0 /\ elements[i].width.d > 0
            /\ elements[i].height.n > 0 /\ elements[i].height.d > 0

\* a signature has been shrunk twice: it is 97.2 wide and 48.6 high
C11_Witness ==
    \E i \in DOMAIN elements :
        /\ elements[i].type = "signature"
        /\ elements[i].ns = 2
        /\ elements[i].width = [n |-> 486, d |-> 5]
        /\ elements[i].height = [n |-> 243, d |-> 5]

\* C12: a move changes the position of the one annotation that was dragged
\* and of no other, and leaves the store alone when no annotation has the id
C12_MoveOnlyTarget ==
    [][(edits' # edits /\ Len(elements') = Len(elements)) =>
           Cardinality({i \in DOMAIN elements :
                           <<elements'[i].x, elements'[i].y>>
                               # <<elements[i].x, elements[i].y>>}) <= 1]_vars

\* C13: the content of a signature annotation is the image it was created
\* with: setContent never changes it
C13_SignatureContentFixed ==
    \A i \in DOMAIN elements :
        elements[i].type = "signature" => elements[i].value \in SigImages

\* C14: a text or date annotation never carries a width or a height
C14_TextHasNoSize ==
    \A i \in DOMAIN elements :
        elements[i].type \in {"text", "date"} =>
            /\ "width" \notin DOMAIN elements[i]
            /\ "height" \notin DOMAIN elements[i]

\* C15: a remove deletes exactly one annotation, or none when no annotation
\* has the id
C15_RemoveExactlyOne ==
    [][(edits' # edits /\ Len(elements') < Len(elements)) =>
           Len(elements') = Len(elements) - 1]_vars

\* C16: the overlay holds exactly the annotations of the rendered store
\* whose page is the rendered page, and the store, rendered or not, keeps
\* its annotations in the order of their creation
C16_OverlayInOrder ==
    /\ \A k \in DOMAIN view.elements :
           k \in Overlay <=> view.elements[k].page = view.currentPage
    /\ \A i, j \in DOMAIN view.elements :
           i < j => view.elements[i].uid < view.elements[j].uid
    /\ \A i, j \in DOMAIN elements :
           i < j => elements[i].uid < elements[j].uid

\* after an edit the overlay shows one of the two annotations of the store
\* and not the other, which is on another page
C16_Witness ==
    /\ Len(view.elements) = 2
    /\ Cardinality(Overlay) = 1
    /\ edits >= 1
    /\ view.elements = elements

\* C17: an annotation that a step keeps has the page, the kind and the id it
\* had before the step
C17_PageKindIdFixed ==
    [][\A i \in DOMAIN elements, j \in DOMAIN elements' :
           elements[i].uid = elements'[j].uid =>
               /\ elements'[j].page = elements[i].page
               /\ elements'[j].type = elements[i].type
               /\ elements'[j].id = elements[i].id]_vars

\* an annotation of the second page has been moved after another annotation
\* was removed
C17_Witness ==
    /\ Len(issued) = 2
    /\ edits = 2
    /\ Len(elements) = 1
    /\ elements[1].page = 2
    /\ elements[1].x = 0

\* what an export emits for annotation el of its snapshot
EmitsFor(d, el, pg) ==
    /\ d.page = el.page
    /\ d.content = el.value
    /\ d.x = PdfX(el, pg)
    /\ d.y = PdfY(el, pg)
    /\ d.kind = (IF el.type = "signature" THEN "image" ELSE "text")
    /\ d.kind = "image" =>
           /\ d.width = RMul(el.width, ScaleFactor(pg))
           /\ d.height = RMul(el.height, ScaleFactor(pg))

\* C18: an export starts with the store and the bytes of that instant, keeps
\* them whatever happens to the store while it is in flight, and draws each
\* annotation at most once, with the page, the
\* content, the position and the size the snapshot has for it
C18_ExportOfSnapshot ==
    /\ [][/\ Len(exports') > Len(exports) =>
               /\ exports'[Len(exports')].els = elements
               /\ exports'[Len(exports')].bytes = pdfBytes
          /\ Len(exports') >= Len(exports) =>
               \A k \in DOMAIN exports :
                   /\ exports'[k].els = exports[k].els
                   /\ exports'[k].bytes = exports[k].bytes
          /\ Len(exports') < Len(exports) =>
               /\ last'.op = "exportDone"
               /\ \E k \in DOMAIN exports :
                      /\ last'.of.els = exports[k].els
                      /\ last'.of.bytes = exports[k].bytes
                      /\ last'.of.drawn = exports[k].drawn]_vars
    /\ [](\A e \in Observed :
             /\ \A n \in DOMAIN e.drawn :
                    /\ e.drawn[n].src \in DOMAIN e.els
                    /\ EmitsFor(e.drawn[n], e.els[e.drawn[n].src],
                                e.bytes.pages[e.els[e.drawn[n].src].page])
             /\ \A n, m \in DOMAIN e.drawn :
                    n # m => e.drawn[n].src # e.drawn[m].src)

\* an export has saved a file with an annotation drawn at the position it
\* was moved to before the export, and the store was changed while the
\* export was in flight
C18_Witness ==
    /\ ExportSaved
    /\ elements # last.of.els
    /\ \E n \in DOMAIN last.saved[1] :
           /\ last.saved[1][n].x = Num(0)
           /\ last.of.els[last.saved[1][n].src].x = 0

\* an export started from the render that followed the end of an export
\* that saved a file, with the same store and the same bytes
Repeats(e) ==
    /\ e.prev.op = "rendered"
    /\ e.prev.saved # << >>
    /\ e.prev.els = e.els
    /\ e.prev.bytes = e.bytes

C20_RejectChangesNothing ==
    [][last'.op = "reject" =>
           /\ last'.alert = "Please convert"
           /\ UNCHANGED <<pdfFile, pdfBytes, numPages, currentPage, elements,
                          isExporting, view, reading, docLoad>>]_vars

\* a file of another type has been rejected and no file is selected
C20_Witness ==
    /\ last.op = "reject"
    /\ pdfFile = NoFile
    /\ view.pdfFile = NoFile

\* C21: the font size of a drawn text or date is 14 * pageWidth / 600, the
\* width and the height of a drawn signature are those of the annotation
\* times pageWidth / 600, and on a page 600 wide they are 14 and the
\* annotation's width and height
C21_SizeScaled ==
    \A e \in Observed : \A n \in DOMAIN e.drawn :
        LET d == e.drawn[n]
            el == e.els[d.src]
            pg == e.bytes.pages[el.page]
        IN  /\ d.kind = "text" =>
                   /\ d.size.n * 600 = d.size.d * (14 * pg.width)
                   /\ pg.width = 600 => d.size = Num(14)
            /\ d.kind = "image" =>
                   /\ d.width.n * (600 * el.width.d)
                          = d.width.d * (el.width.n * pg.width)
                   /\ d.height.n * (600 * el.height.d)
                          = d.height.d * (el.height.n * pg.width)
                   /\ pg.width = 600 =>
                          d.width = el.width /\ d.height = el.height

\* an export has drawn a text at font size 14 on a page 600 wide and, on a
\* page 612 wide, a signature shrunk to 108 by 54 at 110.16 by 55.08
C21_Witness ==
    \E e \in Observed : \E n, m \in DOMAIN e.drawn :
        /\ e.drawn[n].kind = "text"
        /\ e.bytes.pages[e.drawn[n].page].width = 600
        /\ e.drawn[n].size = Num(14)
        /\ e.drawn[m].kind = "image"
        /\ e.els[e.drawn[m].src].width = Num(108)
        /\ e.drawn[m].width = [n |-> 2754, d |-> 25]
        /\ e.drawn[m].height = [n |-> 1377, d |-> 25]

\* C22: the exporting status is true exactly while an export is in flight,
\* and an export in flight eventually ends, with the status false
C22_ExportEnds ==
    /\ [](isExporting <=> exports # << >>)
    /\ (exports # << >>) ~> (exports = << >> /\ ~isExporting)

\* an export has ended by a saved file after it drew a signature, and the
\* status is false
C22_Witness ==
    /\ ExportSaved
    /\ \E n \in DOMAIN last.saved[1] : last.saved[1][n].kind = "image"
    /\ exports = << >>
    /\ ~isExporting

\* C23: an annotation leaves the store only by a step of a handler of its
\* frame (the remove button) or when another file is selected: the store
\* reset that follows the read of the file removes no annotation that was
\* created while that file was displayed
C23_CreatedStays ==
    [][\A i \in DOMAIN elements :
           \/ \E j \in DOMAIN elements' : elements'[j].uid = elements[i].uid
           \/ edits' # edits
           \/ pdfFile' # pdfFile]_vars

\* C24: the viewed page is at least 1, and at most the page count once the
\* renderer has reported it
C24_CurrentPageInRange ==
    /\ currentPage >= 1
    /\ numPages > 0 => currentPage <= numPages

\* C25: every signature of the store and of an export's snapshot has a
\* height that is defined and not 0, so the height of the vertical flip
\* (height || 0) is the height the image is drawn at (height || 60), and
\* the top edge of every drawn image, pdfY plus the drawn height, is
\* y * pageWidth / 600 below the top of the page
C25_SignatureHeight ==
    /\ \A el \in {elements[i] : i \in DOMAIN elements}
                 \cup UNION {{e.els[j] : j \in DOMAIN e.els} : e \in Observed} :
           el.type = "signature" =>
               /\ "height" \in DOMAIN el
               /\ el.height.n # 0
               /\ ElementHeight(el) = HeightOr(el, DEFAULT_SIG_HEIGHT)
    /\ \A e \in Observed : \A n \in DOMAIN e.drawn :
           LET d == e.drawn[n]
               el == e.els[d.src]
               pg == e.bytes.pages[el.page]
               top == RSub(Num(pg.height), RMul(Num(el.y), ScaleFactor(pg)))
           IN  d.kind = "image" => RSub(top, d.y) = d.height

\* an export has drawn, on a 612 by 792 page, a signature at y = 150 that
\* was shrunk to the height 54: its image is 55.08 high with its bottom
\* edge at 583.92, so its top edge is at 639 = 792 - 150 * 1.02
C25_Witness ==
    \E e \in Observed : \E n \in DOMAIN e.drawn :
        LET d == e.drawn[n]
            el == e.els[d.src]
        IN  /\ d.kind = "image"
            /\ el.y = 150
            /\ el.height = Num(54)
            /\ e.bytes.pages[el.page].width = 612
            /\ e.bytes.pages[el.page].height = 792
            /\ d.height = [n |-> 1377, d |-> 25]
            /\ d.y = [n |-> 14598, d |-> 25]

====
